---- MODULE Spec2Model ----
(***************************************************************************)
(* A model of the chess rules engine of src/chess.py (class ChessGame):    *)
(* the position, the move-legality predicates, attack detection, move      *)
(* application and undo.  Every operator is translated from the method of  *)
(* the same name; a game is the record `Game` of the object's fields.      *)
(***************************************************************************)
EXTENDS Integers, Sequences, FiniteSets, TLC

VARIABLES board, current_player, move_history, captured_pieces,
          white_king_moved, black_king_moved,
          white_rook_a_moved, white_rook_h_moved,
          black_rook_a_moved, black_rook_h_moved,
          en_passant_target, ai_enabled, ai_color

vars == <<board, current_player, move_history, captured_pieces,
          white_king_moved, black_king_moved,
          white_rook_a_moved, white_rook_h_moved,
          black_rook_a_moved, black_rook_h_moved,
          en_passant_target, ai_enabled, ai_color>>

(***************************************************************************)
(* Values.  Python's None is `None` in a board cell or a piece slot and    *)
(* `NoSquare` where a (row, col) pair is expected.                         *)
(***************************************************************************)
None == "None"

NoSquare == <<>>

Rows == 0 .. 7

Squares == Rows \X Rows

WhitePieces == {"K", "Q", "R", "B", "N", "P"}

BlackPieces == {"k", "q", "r", "b", "n", "p"}

\* str.lower() on a piece letter
lower(piece) ==
  CASE piece = "K" -> "k" [] piece = "Q" -> "q" [] piece = "R" -> "r"
    [] piece = "B" -> "b" [] piece = "N" -> "n" [] piece = "P" -> "p"
    [] OTHER -> piece

abs(x) == IF x < 0 THEN -x ELSE x

is_white_piece(piece) == piece # None /\ piece \in WhitePieces

is_black_piece(piece) == piece # None /\ piece \in BlackPieces

\* the turn never passing
other_player_unchanged(player) == player

other_player(player) == IF player = "white" THEN "black" ELSE "white"

BackRank == <<"R", "N", "B", "Q", "K", "B", "N", "R">>

\* the board is indexed as in the source: board[row][col], row 0 = rank 8
initialize_board ==
  [row \in Rows |->
     [col \in Rows |->
        CASE row = 0 -> lower(BackRank[col + 1])
          [] row = 1 -> "p"
          [] row = 6 -> "P"
          [] row = 7 -> BackRank[col + 1]
          [] OTHER -> None]]

\* board[pos[0]][pos[1]]
at(b, pos) == b[pos[1]][pos[2]]

\* the board after board[pos[0]][pos[1]] = value
put(b, pos, value) == [b EXCEPT ![pos[1]][pos[2]] = value]

(***************************************************************************)
(* Coordinates.  A typed position is a sequence of one-character strings.  *)
(***************************************************************************)
Files == <<"a", "b", "c", "d", "e", "f", "g", "h">>

Digits == <<"0", "1", "2", "3", "4", "5", "6", "7", "8", "9">>

IndexOf(seq, x) ==
  IF \E i \in 1 .. Len(seq) : seq[i] = x
    THEN CHOOSE i \in 1 .. Len(seq) : seq[i] = x
    ELSE 0

UpperFiles == <<"A", "B", "C", "D", "E", "F", "G", "H">>

\* ord(pos[0].lower()) - ord('a') for the letters a-h and A-H; every other
\* character the model types lies outside 0..7
file_offset(ch) ==
  IF IndexOf(Files, ch) > 0 THEN IndexOf(Files, ch) - 1
  ELSE IF IndexOf(UpperFiles, ch) > 0 THEN IndexOf(UpperFiles, ch) - 1
  ELSE 8

\* parse_position without its test of the range of row and col
parse_position_without_range_test(pos) ==
  IF Len(pos) # 2 THEN NoSquare
  ELSE LET col == file_offset(pos[1]) IN
       IF IndexOf(Digits, pos[2]) = 0 THEN NoSquare
       ELSE <<8 - (IndexOf(Digits, pos[2]) - 1), col>>

parse_position(pos) ==
  IF Len(pos) # 2 THEN NoSquare
  ELSE LET col == file_offset(pos[1]) IN
       IF IndexOf(Digits, pos[2]) = 0 THEN NoSquare   \* int() raises ValueError
       ELSE LET row == 8 - (IndexOf(Digits, pos[2]) - 1) IN
            IF 0 <= row /\ row < 8 /\ 0 <= col /\ col < 8
              THEN <<row, col>>
              ELSE NoSquare

position_to_notation(pos) == <<Files[pos[2] + 1], Digits[(8 - pos[1]) + 1]>>

(***************************************************************************)
(* Move legality.                                                          *)
(***************************************************************************)
RECURSIVE path_scan(_, _, _, _, _, _, _)
\* the while loop of is_path_clear
path_scan(b, current_row, current_col, to_row, to_col, row_step, col_step) ==
  IF current_row # to_row \/ current_col # to_col
    THEN IF b[current_row][current_col] # None
           THEN FALSE
           ELSE path_scan(b, current_row + row_step, current_col + col_step,
                          to_row, to_col, row_step, col_step)
    ELSE TRUE

\* is_path_clear with the scan going on to the destination square
is_path_clear_to_destination(g, from_pos, to_pos) ==
  LET from_row == from_pos[1]
      from_col == from_pos[2]
      to_row == to_pos[1]
      to_col == to_pos[2]
      row_step == IF from_row = to_row THEN 0
                  ELSE IF to_row > from_row THEN 1 ELSE -1
      col_step == IF from_col = to_col THEN 0
                  ELSE IF to_col > from_col THEN 1 ELSE -1
  IN /\ path_scan(g.board, from_row + row_step, from_col + col_step,
                  to_row, to_col, row_step, col_step)
     /\ at(g.board, to_pos) = None

is_path_clear(g, from_pos, to_pos) ==
  LET from_row == from_pos[1]
      from_col == from_pos[2]
      to_row == to_pos[1]
      to_col == to_pos[2]
      row_step == IF from_row = to_row THEN 0
                  ELSE IF to_row > from_row THEN 1 ELSE -1
      col_step == IF from_col = to_col THEN 0
                  ELSE IF to_col > from_col THEN 1 ELSE -1
  IN path_scan(g.board, from_row + row_step, from_col + col_step,
               to_row, to_col, row_step, col_step)

\* is_valid_pawn_move with its last rule, the en-passant capture, left out
is_valid_pawn_move_without_en_passant(g, from_pos, to_pos) ==
  LET from_row == from_pos[1]
      from_col == from_pos[2]
      to_row == to_pos[1]
      to_col == to_pos[2]
      piece == at(g.board, from_pos)
      target == at(g.board, to_pos)
      direction == IF is_white_piece(piece) THEN -1 ELSE 1
      start_row == IF is_white_piece(piece) THEN 6 ELSE 1
  IN \/ (from_col = to_col /\ to_row = from_row + direction /\ target = None)
     \/ (/\ from_col = to_col
         /\ from_row = start_row
         /\ to_row = from_row + 2 * direction
         /\ target = None
         /\ g.board[from_row + direction][from_col] = None)
     \/ (/\ abs(from_col - to_col) = 1
         /\ to_row = from_row + direction
         /\ target # None)

\* is_valid_pawn_move with the two-square advance not looking at the square
\* it passes over
is_valid_pawn_move_jumping(g, from_pos, to_pos) ==
  LET from_row == from_pos[1]
      from_col == from_pos[2]
      to_row == to_pos[1]
      to_col == to_pos[2]
      piece == at(g.board, from_pos)
      target == at(g.board, to_pos)
      direction == IF is_white_piece(piece) THEN -1 ELSE 1
      start_row == IF is_white_piece(piece) THEN 6 ELSE 1
  IN \/ (from_col = to_col /\ to_row = from_row + direction /\ target = None)
     \/ (/\ from_col = to_col
         /\ from_row = start_row
         /\ to_row = from_row + 2 * direction
         /\ target = None)
     \/ (/\ abs(from_col - to_col) = 1
         /\ to_row = from_row + direction
         /\ target # None)
     \/ (/\ abs(from_col - to_col) = 1
         /\ to_row = from_row + direction
         /\ target = None
         /\ g.en_passant_target = to_pos)

is_valid_pawn_move(g, from_pos, to_pos) ==
  LET from_row == from_pos[1]
      from_col == from_pos[2]
      to_row == to_pos[1]
      to_col == to_pos[2]
      piece == at(g.board, from_pos)
      target == at(g.board, to_pos)
      direction == IF is_white_piece(piece) THEN -1 ELSE 1
      start_row == IF is_white_piece(piece) THEN 6 ELSE 1
  IN \/ (from_col = to_col /\ to_row = from_row + direction /\ target = None)
     \/ (/\ from_col = to_col
         /\ from_row = start_row
         /\ to_row = from_row + 2 * direction
         /\ target = None
         /\ g.board[from_row + direction][from_col] = None)
     \/ (/\ abs(from_col - to_col) = 1
         /\ to_row = from_row + direction
         /\ target # None)
     \/ (/\ abs(from_col - to_col) = 1
         /\ to_row = from_row + direction
         /\ target = None
         /\ g.en_passant_target = to_pos)

is_valid_rook_move(g, from_pos, to_pos) ==
  IF from_pos[1] # to_pos[1] /\ from_pos[2] # to_pos[2]
    THEN FALSE
    ELSE is_path_clear(g, from_pos, to_pos)

is_valid_knight_move(g, from_pos, to_pos) ==
  LET row_diff == abs(from_pos[1] - to_pos[1])
      col_diff == abs(from_pos[2] - to_pos[2])
  IN (row_diff = 2 /\ col_diff = 1) \/ (row_diff = 1 /\ col_diff = 2)

is_valid_bishop_move(g, from_pos, to_pos) ==
  IF abs(from_pos[1] - to_pos[1]) # abs(from_pos[2] - to_pos[2])
    THEN FALSE
    ELSE is_path_clear(g, from_pos, to_pos)

is_valid_queen_move(g, from_pos, to_pos) ==
  is_valid_rook_move(g, from_pos, to_pos) \/ is_valid_bishop_move(g, from_pos, to_pos)

RECURSIVE is_valid_move(_, _, _)
RECURSIVE is_valid_king_move(_, _, _)
RECURSIVE can_castle(_, _, _)
RECURSIVE is_square_attacked(_, _, _)

is_valid_move(g, from_pos, to_pos) ==
  LET piece == at(g.board, from_pos)
      target == at(g.board, to_pos)
  IN IF from_pos = to_pos THEN FALSE
     ELSE IF piece = None THEN FALSE
     ELSE IF g.current_player = "white" /\ ~is_white_piece(piece) THEN FALSE
     ELSE IF g.current_player = "black" /\ ~is_black_piece(piece) THEN FALSE
     ELSE IF g.current_player = "white" /\ is_white_piece(target) THEN FALSE
     ELSE IF g.current_player = "black" /\ is_black_piece(target) THEN FALSE
     ELSE LET piece_type == lower(piece) IN
          CASE piece_type = "p" -> is_valid_pawn_move(g, from_pos, to_pos)
            [] piece_type = "r" -> is_valid_rook_move(g, from_pos, to_pos)
            [] piece_type = "n" -> is_valid_knight_move(g, from_pos, to_pos)
            [] piece_type = "b" -> is_valid_bishop_move(g, from_pos, to_pos)
            [] piece_type = "q" -> is_valid_queen_move(g, from_pos, to_pos)
            [] piece_type = "k" -> is_valid_king_move(g, from_pos, to_pos)
            [] OTHER -> FALSE

is_valid_king_move(g, from_pos, to_pos) ==
  LET row_diff == abs(from_pos[1] - to_pos[1])
      col_diff == abs(from_pos[2] - to_pos[2])
  IN IF row_diff <= 1 /\ col_diff <= 1 THEN TRUE
     ELSE IF row_diff = 0 /\ col_diff = 2 THEN can_castle(g, from_pos, to_pos)
     ELSE FALSE

can_castle(g, from_pos, to_pos) ==
  LET from_row == from_pos[1]
      from_col == from_pos[2]
      to_row == to_pos[1]
      to_col == to_pos[2]
      piece == at(g.board, from_pos)
      kingside == to_col > from_col
      rook_col == IF kingside THEN 7 ELSE 0
      cols_between == IF kingside THEN (from_col + 1) .. (rook_col - 1)
                      ELSE (rook_col + 1) .. (from_col - 1)
      expected_rook == IF is_white_piece(piece) THEN "R" ELSE "r"
      opponent == other_player(g.current_player)
      lo == IF from_col < to_col THEN from_col ELSE to_col
      hi == IF from_col < to_col THEN to_col ELSE from_col
  IN IF piece = "K" /\ g.white_king_moved THEN FALSE
     ELSE IF piece = "k" /\ g.black_king_moved THEN FALSE
     ELSE IF from_row # to_row THEN FALSE
     ELSE IF kingside /\ piece = "K" /\ g.white_rook_h_moved THEN FALSE
     ELSE IF kingside /\ piece = "k" /\ g.black_rook_h_moved THEN FALSE
     ELSE IF ~kingside /\ piece = "K" /\ g.white_rook_a_moved THEN FALSE
     ELSE IF ~kingside /\ piece = "k" /\ g.black_rook_a_moved THEN FALSE
     ELSE IF g.board[from_row][rook_col] # expected_rook THEN FALSE
     ELSE IF \E col \in cols_between : g.board[from_row][col] # None THEN FALSE
     ELSE IF \E col \in lo .. hi : is_square_attacked(g, <<from_row, col>>, opponent)
       THEN FALSE
     ELSE TRUE

\* the probe runs with current_player set to by_color and puts it back
is_square_attacked(g, pos, by_color) ==
  \E i \in Rows, j \in Rows :
     LET piece == g.board[i][j] IN
       /\ piece # None
       /\ (by_color = "white" => is_white_piece(piece))
       /\ (by_color = "black" => is_black_piece(piece))
       /\ is_valid_move([g EXCEPT !.current_player = by_color], <<i, j>>, pos)

find_king(g, color) ==
  LET king == IF color = "white" THEN "K" ELSE "k"
      found == {sq \in Squares : at(g.board, sq) = king}
  IN IF found = {} THEN NoSquare
     ELSE CHOOSE sq \in found :
            \A o \in found : sq[1] < o[1] \/ (sq[1] = o[1] /\ sq[2] <= o[2])

\* the board during the temporary move of would_be_in_check
temp_board(g, from_pos, to_pos) ==
  put(put(g.board, to_pos, at(g.board, from_pos)), from_pos, None)

would_be_in_check(g, from_pos, to_pos) ==
  LET moved == [g EXCEPT !.board = temp_board(g, from_pos, to_pos)]
      king_pos == find_king(moved, g.current_player)
      opponent == other_player(g.current_player)
  IN is_square_attacked(moved, king_pos, opponent)

get_all_valid_moves(g, pos) ==
  {to_pos \in Squares :
     is_valid_move(g, pos, to_pos) /\ ~would_be_in_check(g, pos, to_pos)}

(***************************************************************************)
(* What the two probing queries leave behind.  is_square_attacked sets     *)
(* current_player around each call of is_valid_move, would_be_in_check     *)
(* moves the piece on the board and moves it back.  Neither has a handler  *)
(* for an exception: when the temporary move removes the mover's king,     *)
(* find_king returns None, is_valid_move raises TypeError on unpacking it, *)
(* and both assignments that put things back are skipped.                 *)
(***************************************************************************)
\* is_square_attacked raises: pos is None and is_valid_move is reached
is_square_attacked_raises(g, pos, by_color) ==
  /\ pos = NoSquare
  /\ \E i \in Rows, j \in Rows :
        IF by_color = "white" THEN is_white_piece(g.board[i][j])
        ELSE is_black_piece(g.board[i][j])

\* the object when is_square_attacked returns or raises
after_is_square_attacked(g, pos, by_color) ==
  LET original_player == g.current_player
      probing == [g EXCEPT !.current_player = by_color]
  IN IF is_square_attacked_raises(g, pos, by_color) THEN probing
     ELSE [probing EXCEPT !.current_player = original_player]

would_be_in_check_raises(g, from_pos, to_pos) ==
  LET moved == [g EXCEPT !.board = temp_board(g, from_pos, to_pos)] IN
    is_square_attacked_raises(moved, find_king(moved, g.current_player),
                              other_player(g.current_player))

\* the object when would_be_in_check returns or raises
after_would_be_in_check(g, from_pos, to_pos) ==
  LET piece == at(g.board, from_pos)
      captured == at(g.board, to_pos)
      moved == [g EXCEPT !.board = temp_board(g, from_pos, to_pos)]
      king_pos == find_king(moved, g.current_player)
      opponent == other_player(g.current_player)
      probed == after_is_square_attacked(moved, king_pos, opponent)
  IN IF is_square_attacked_raises(moved, king_pos, opponent) THEN probed
     ELSE [probed EXCEPT !.board = put(put(@, from_pos, piece), to_pos, captured)]

\* some piece of the side to move has a move that passes both checks
has_escaping_move(g) ==
  \E from_row \in Rows, from_col \in Rows :
    LET piece == g.board[from_row][from_col] IN
      /\ piece # None
      /\ (g.current_player = "white" => is_white_piece(piece))
      /\ (g.current_player = "black" => is_black_piece(piece))
      /\ \E to_row \in Rows, to_col \in Rows :
            /\ is_valid_move(g, <<from_row, from_col>>, <<to_row, to_col>>)
            /\ ~would_be_in_check(g, <<from_row, from_col>>, <<to_row, to_col>>)

\* both raise TypeError when find_king returns None; they are defined here for
\* positions that hold the king of the side to move
is_checkmate(g) ==
  LET king_pos == find_king(g, g.current_player)
      opponent == other_player(g.current_player)
  IN IF ~is_square_attacked(g, king_pos, opponent) THEN FALSE
     ELSE ~has_escaping_move(g)

\* is_stalemate without its test of the king
is_stalemate_without_king_test(g) == ~has_escaping_move(g)

is_stalemate(g) ==
  LET king_pos == find_king(g, g.current_player)
      opponent == other_player(g.current_player)
  IN IF is_square_attacked(g, king_pos, opponent) THEN FALSE
     ELSE ~has_escaping_move(g)

(***************************************************************************)
(* Move application.  `typed` is the sequence of lines the player types at *)
(* the promotion prompt; it is read only when a human player's pawn        *)
(* reaches the farthest rank.                                              *)
(***************************************************************************)
PromotionChoices == {"Q", "R", "B", "N"}

\* str.upper() on the lines the model types
upper(line) ==
  CASE line = "q" -> "Q"
    [] line = "r" -> "R"
    [] line = "b" -> "B"
    [] line = "n" -> "N"
    [] line = "k" -> "K"
    [] line = "p" -> "P"
    [] OTHER -> line

RECURSIVE prompt_loop(_)
\* the while loop of promote_pawn: lines are read until one is Q, R, B or N
prompt_loop(typed) ==
  LET choice == upper(Head(typed)) IN
    IF choice \in PromotionChoices THEN choice ELSE prompt_loop(Tail(typed))

\* promote_pawn returning a choice and leaving the pawn on the square
promote_pawn_leaving_the_pawn(g, piece, typed) == <<piece, "Q">>

promote_pawn_always_queen(g, piece, typed) ==
  IF is_white_piece(piece) THEN <<"Q", "Q">> ELSE <<"q", "q">>

\* [new piece on the square, value returned]
promote_pawn(g, piece, typed) ==
  IF g.ai_enabled /\ g.current_player = g.ai_color
    THEN IF is_white_piece(piece) THEN <<"Q", "Q">> ELSE <<"q", "q">>
    ELSE LET choice == prompt_loop(typed) IN
           IF is_white_piece(piece) THEN <<choice, choice>>
           ELSE <<lower(choice), choice>>

make_move(g, from_pos, to_pos, typed) ==
  LET from_row == from_pos[1]
      from_col == from_pos[2]
      to_row == to_pos[1]
      to_col == to_pos[2]
      piece == at(g.board, from_pos)
      captured == at(g.board, to_pos)
      direction == IF is_white_piece(piece) THEN -1 ELSE 1
      \* en passant capture
      is_ep == lower(piece) = "p" /\ to_pos = g.en_passant_target /\ captured = None
      ep_square == <<to_row - direction, to_col>>
      en_passant_capture == IF is_ep THEN at(g.board, ep_square) ELSE None
      board1 == IF is_ep THEN put(g.board, ep_square, None) ELSE g.board
      captured1 ==
        IF is_ep
          THEN [g.captured_pieces EXCEPT
                  ![g.current_player] = Append(@, en_passant_capture)]
          ELSE g.captured_pieces
      \* castling: the rook goes with the king
      castled == lower(piece) = "k" /\ abs(to_col - from_col) = 2
      rook_from == IF to_col > from_col THEN <<from_row, 7>> ELSE <<from_row, 0>>
      rook_to == IF to_col > from_col THEN <<from_row, 5>> ELSE <<from_row, 3>>
      board2 == IF castled
                  THEN put(put(board1, rook_to, at(board1, rook_from)), rook_from, None)
                  ELSE board1
      \* en passant target
      new_target == IF lower(piece) = "p" /\ abs(to_row - from_row) = 2
                      THEN <<from_row + direction, from_col>>
                      ELSE NoSquare
      \* the move itself
      board3 == put(put(board2, to_pos, piece), from_pos, None)
      captured2 ==
        IF captured # None
          THEN [captured1 EXCEPT ![g.current_player] = Append(@, captured)]
          ELSE captured1
      \* promotion
      promotes == lower(piece) = "p"
                  /\ ((piece = "P" /\ to_row = 0) \/ (piece = "p" /\ to_row = 7))
      promotion == promote_pawn(g, at(board3, to_pos), typed)
      board4 == IF promotes THEN put(board3, to_pos, promotion[1]) ELSE board3
      promoted_to == IF promotes THEN promotion[2] ELSE None
      move_state ==
        [from_pos |-> from_pos,
         to_pos |-> to_pos,
         piece |-> piece,
         captured |-> captured,
         \* self.en_passant_target is read here, after its assignment above
         en_passant_target_before |-> new_target,
         en_passant_capture |-> en_passant_capture,
         promoted_to |-> promoted_to,
         castled |-> castled]
  IN [g EXCEPT
        !.board = board4,
        !.captured_pieces = captured2,
        !.white_king_moved = IF piece = "K" THEN TRUE ELSE @,
        !.black_king_moved = IF piece = "k" THEN TRUE ELSE @,
        !.white_rook_a_moved =
           IF piece = "R" /\ from_row = 7 /\ from_col = 0 THEN TRUE ELSE @,
        !.white_rook_h_moved =
           IF piece = "R" /\ from_row = 7 /\ from_col = 7 THEN TRUE ELSE @,
        !.black_rook_a_moved =
           IF piece = "r" /\ from_row = 0 /\ from_col = 0 THEN TRUE ELSE @,
        !.black_rook_h_moved =
           IF piece = "r" /\ from_row = 0 /\ from_col = 7 THEN TRUE ELSE @,
        !.en_passant_target = new_target,
        !.move_history = Append(@, move_state),
        !.current_player = other_player(@)]

(***************************************************************************)
(* Undo.                                                                   *)
(***************************************************************************)
\* list.remove(x): drops the first element equal to x
list_remove(list, x) ==
  LET i == IndexOf(list, x) IN
    IF i = 0 THEN list
    ELSE SubSeq(list, 1, i - 1) \o SubSeq(list, i + 1, Len(list))

\* undo_move without its test for an empty history: the side to move is
\* switched back whatever the history holds
undo_move_without_empty_test(g) ==
  [g EXCEPT !.current_player = other_player(@)]

\* the value undo_move returns: False when there is no move to undo
undo_move_returns(g) == g.move_history # <<>>

\* undo_move leaving the rook of a castling where it stands
undo_move_without_castling(g) ==
  IF g.move_history = <<>> THEN g ELSE
  LET move_state == g.move_history[Len(g.move_history)]
      player == other_player(g.current_player)
      from_pos == move_state.from_pos
      to_pos == move_state.to_pos
      piece == move_state.piece
      captured == move_state.captured
      board1 == put(put(g.board, from_pos, piece), to_pos, captured)
      direction == IF is_white_piece(piece) THEN -1 ELSE 1
      has_ep == move_state.en_passant_capture # None
      board2 == IF has_ep
                  THEN put(board1, <<to_pos[1] - direction, to_pos[2]>>,
                           move_state.en_passant_capture)
                  ELSE board1
      captured1 ==
        IF has_ep
          THEN [g.captured_pieces EXCEPT
                  ![player] = list_remove(@, move_state.en_passant_capture)]
          ELSE g.captured_pieces
      captured2 ==
        IF captured # None
          THEN [captured1 EXCEPT ![player] = list_remove(@, captured)]
          ELSE captured1
      rook_from == IF to_pos[2] > from_pos[2] THEN <<from_pos[1], 5>>
                   ELSE <<from_pos[1], 3>>
      rook_to == IF to_pos[2] > from_pos[2] THEN <<from_pos[1], 7>>
                 ELSE <<from_pos[1], 0>>
      board3 == board2
  IN [g EXCEPT
        !.move_history = SubSeq(@, 1, Len(@) - 1),
        !.current_player = player,
        !.board = board3,
        !.en_passant_target = move_state.en_passant_target_before,
        !.captured_pieces = captured2]

undo_move(g) ==
  IF g.move_history = <<>> THEN g ELSE
  LET move_state == g.move_history[Len(g.move_history)]
      player == other_player(g.current_player)
      from_pos == move_state.from_pos
      to_pos == move_state.to_pos
      piece == move_state.piece
      captured == move_state.captured
      board1 == put(put(g.board, from_pos, piece), to_pos, captured)
      direction == IF is_white_piece(piece) THEN -1 ELSE 1
      has_ep == move_state.en_passant_capture # None
      board2 == IF has_ep
                  THEN put(board1, <<to_pos[1] - direction, to_pos[2]>>,
                           move_state.en_passant_capture)
                  ELSE board1
      captured1 ==
        IF has_ep
          THEN [g.captured_pieces EXCEPT
                  ![player] = list_remove(@, move_state.en_passant_capture)]
          ELSE g.captured_pieces
      captured2 ==
        IF captured # None
          THEN [captured1 EXCEPT ![player] = list_remove(@, captured)]
          ELSE captured1
      rook_from == IF to_pos[2] > from_pos[2] THEN <<from_pos[1], 5>>
                   ELSE <<from_pos[1], 3>>
      rook_to == IF to_pos[2] > from_pos[2] THEN <<from_pos[1], 7>>
                 ELSE <<from_pos[1], 0>>
      board3 == IF move_state.castled
                  THEN put(put(board2, rook_to, at(board2, rook_from)), rook_from, None)
                  ELSE board2
  IN [g EXCEPT
        !.move_history = SubSeq(@, 1, Len(@) - 1),
        !.current_player = player,
        !.board = board3,
        !.en_passant_target = move_state.en_passant_target_before,
        !.captured_pieces = captured2]

(***************************************************************************)
(* The game as one record of the object's fields, and the commands typed   *)
(* at the prompt of play().  A move command is a pair of typed positions.  *)
(* The players follow the games below, move by move, for at most MaxPly    *)
(* moves, and may take back any number of moves at any point.              *)
(***************************************************************************)
Game ==
  [board |-> board,
   current_player |-> current_player,
   move_history |-> move_history,
   captured_pieces |-> captured_pieces,
   white_king_moved |-> white_king_moved,
   black_king_moved |-> black_king_moved,
   white_rook_a_moved |-> white_rook_a_moved,
   white_rook_h_moved |-> white_rook_h_moved,
   black_rook_a_moved |-> black_rook_a_moved,
   black_rook_h_moved |-> black_rook_h_moved,
   en_passant_target |-> en_passant_target,
   ai_enabled |-> ai_enabled,
   ai_color |-> ai_color]

MaxPly == 19

Mv(f1, r1, f2, r2) == <<<<f1, r1>>, <<f2, r2>>>>

\* 1.d3 e6 2.Kd2 d6 3.Kc3 Qg5 4.b4 h6 5.b5 Ne7 6.Kb4 g6 7.Ka5 c5 8.bxc6 e.p. Qxa5
PinnedEnPassantGame ==
  <<Mv("d", "2", "d", "3"),
     Mv("e", "7", "e", "6"),
     Mv("e", "1", "d", "2"),
     Mv("d", "7", "d", "6"),
     Mv("d", "2", "c", "3"),
     Mv("d", "8", "g", "5"),
     Mv("b", "2", "b", "4"),
     Mv("h", "7", "h", "6"),
     Mv("b", "4", "b", "5"),
     Mv("g", "8", "e", "7"),
     Mv("c", "3", "b", "4"),
     Mv("g", "7", "g", "6"),
     Mv("b", "4", "a", "5"),
     Mv("c", "7", "c", "5"),
     Mv("b", "5", "c", "6"),
     Mv("g", "5", "a", "5")>>

\* 1.e4 d5 2.exd5 Qxd5 3.Nc3 a6 4.Nxd5 a5 5.Nxc7+ Kd8
KnightRaidGame ==
  <<Mv("e", "2", "e", "4"),
     Mv("d", "7", "d", "5"),
     Mv("e", "4", "d", "5"),
     Mv("d", "8", "d", "5"),
     Mv("b", "1", "c", "3"),
     Mv("a", "7", "a", "6"),
     Mv("c", "3", "d", "5"),
     Mv("a", "6", "a", "5"),
     Mv("d", "5", "c", "7"),
     Mv("e", "8", "d", "8")>>

\* 1.e4 a6 2.e5 d5 3.exd6 e.p. cxd6
WhiteEnPassantGame ==
  <<Mv("e", "2", "e", "4"),
     Mv("a", "7", "a", "6"),
     Mv("e", "4", "e", "5"),
     Mv("d", "7", "d", "5"),
     Mv("e", "5", "d", "6"),
     Mv("c", "7", "d", "6")>>

\* 1.g3 d5 2.Bg2 d4 3.Nf3 d3 4.O-O dxe2
ShortCastleGame ==
  <<Mv("g", "2", "g", "3"),
     Mv("d", "7", "d", "5"),
     Mv("f", "1", "g", "2"),
     Mv("d", "5", "d", "4"),
     Mv("g", "1", "f", "3"),
     Mv("d", "4", "d", "3"),
     Mv("e", "1", "g", "1"),
     Mv("d", "3", "e", "2")>>

\* 1.g3 d5 2.Bg2 d4 3.Nf3 d3 4.a3 dxe2 5.O-O exd1
PawnOnE2Game ==
  <<Mv("g", "2", "g", "3"),
     Mv("d", "7", "d", "5"),
     Mv("f", "1", "g", "2"),
     Mv("d", "5", "d", "4"),
     Mv("g", "1", "f", "3"),
     Mv("d", "4", "d", "3"),
     Mv("a", "2", "a", "3"),
     Mv("d", "3", "e", "2"),
     Mv("e", "1", "g", "1"),
     Mv("e", "2", "d", "1")>>

\* 1.g3 d5 2.Bg2 d4 3.Nf3 d3 4.Kf1 a6 5.Ke1 a5
KingStepGame ==
  <<Mv("g", "2", "g", "3"),
     Mv("d", "7", "d", "5"),
     Mv("f", "1", "g", "2"),
     Mv("d", "5", "d", "4"),
     Mv("g", "1", "f", "3"),
     Mv("d", "4", "d", "3"),
     Mv("e", "1", "f", "1"),
     Mv("a", "7", "a", "6"),
     Mv("f", "1", "e", "1"),
     Mv("a", "6", "a", "5")>>

\* 1.a4 b6 2.Ra3 Bb7 3.h4 h6 4.Rah3 e6 5.g4 Bxh1 6.Rxh1 a6 7.Nf3 a5 8.Bh3 c6 9.O-O
RookSwapGame ==
  <<Mv("a", "2", "a", "4"),
     Mv("b", "7", "b", "6"),
     Mv("a", "1", "a", "3"),
     Mv("c", "8", "b", "7"),
     Mv("h", "2", "h", "4"),
     Mv("h", "7", "h", "6"),
     Mv("a", "3", "h", "3"),
     Mv("e", "7", "e", "6"),
     Mv("g", "2", "g", "4"),
     Mv("b", "7", "h", "1"),
     Mv("h", "3", "h", "1"),
     Mv("a", "7", "a", "6"),
     Mv("g", "1", "f", "3"),
     Mv("a", "6", "a", "5"),
     Mv("f", "1", "h", "3"),
     Mv("c", "7", "c", "6"),
     Mv("e", "1", "g", "1")>>

\* 1.a4 b5 2.axb5 a6 3.bxa6 c6 4.a7 d6 5.axb8=Q Rxb8
PromotionGame ==
  <<Mv("a", "2", "a", "4"),
     Mv("b", "7", "b", "5"),
     Mv("a", "4", "b", "5"),
     Mv("a", "7", "a", "6"),
     Mv("b", "5", "a", "6"),
     Mv("c", "7", "c", "6"),
     Mv("a", "6", "a", "7"),
     Mv("d", "7", "d", "6"),
     Mv("a", "7", "b", "8"),
     Mv("a", "8", "b", "8")>>

\* 1.a3 e5 2.a4 e4 3.d4 exd3 e.p. 4.cxd3
BlackEnPassantGame ==
  <<Mv("a", "2", "a", "3"),
     Mv("e", "7", "e", "5"),
     Mv("a", "3", "a", "4"),
     Mv("e", "5", "e", "4"),
     Mv("d", "2", "d", "4"),
     Mv("e", "4", "d", "3"),
     Mv("c", "2", "d", "3")>>

\* 1.a3 g6 2.a4 Bg7 3.a5 Nf6 4.a6 O-O 5.axb7
BlackCastleGame ==
  <<Mv("a", "2", "a", "3"),
     Mv("g", "7", "g", "6"),
     Mv("a", "3", "a", "4"),
     Mv("f", "8", "g", "7"),
     Mv("a", "4", "a", "5"),
     Mv("g", "8", "f", "6"),
     Mv("a", "5", "a", "6"),
     Mv("e", "8", "g", "8"),
     Mv("a", "6", "b", "7")>>

\* 1.d4 d5 2.Bf4 Bf5 3.Nc3 Nc6 4.Qd2 Qd7 5.O-O-O O-O-O
LongCastleGame ==
  <<Mv("d", "2", "d", "4"),
     Mv("d", "7", "d", "5"),
     Mv("c", "1", "f", "4"),
     Mv("c", "8", "f", "5"),
     Mv("b", "1", "c", "3"),
     Mv("b", "8", "c", "6"),
     Mv("d", "1", "d", "2"),
     Mv("d", "8", "d", "7"),
     Mv("e", "1", "c", "1"),
     Mv("e", "8", "c", "8")>>

\* 1.f3 e5 2.g4 Qh4#
FoolsMateGame ==
  <<Mv("f", "2", "f", "3"),
     Mv("e", "7", "e", "5"),
     Mv("g", "2", "g", "4"),
     Mv("d", "8", "h", "4")>>

\* 1.e3 a5 2.Qh5 Ra6 3.Qxa5 h5 4.h4 Rah6 5.Qxc7 f6 6.Qxd7+ Kf7 7.Qxb7 Qd3
\* 8.Qxb8 Qh7 9.Qxc8 Kg6 10.Qe6: black has no move and is not in check
StalemateGame ==
  <<Mv("e", "2", "e", "3"),
     Mv("a", "7", "a", "5"),
     Mv("d", "1", "h", "5"),
     Mv("a", "8", "a", "6"),
     Mv("h", "5", "a", "5"),
     Mv("h", "7", "h", "5"),
     Mv("h", "2", "h", "4"),
     Mv("a", "6", "h", "6"),
     Mv("a", "5", "c", "7"),
     Mv("f", "7", "f", "6"),
     Mv("c", "7", "d", "7"),
     Mv("e", "8", "f", "7"),
     Mv("d", "7", "b", "7"),
     Mv("d", "8", "d", "3"),
     Mv("b", "7", "b", "8"),
     Mv("d", "3", "h", "7"),
     Mv("b", "8", "c", "8"),
     Mv("f", "7", "g", "6"),
     Mv("c", "8", "e", "6")>>

\* 1.h4 d6 2.h5 Nf6 3.f3 a6 4.Kf2 a5 5.Kg3 Ne4+ 6.Kh4 g5+: the only way out of
\* check is 7.hxg6 e.p.
EnPassantEscapeGame ==
  <<Mv("h", "2", "h", "4"),
     Mv("d", "7", "d", "6"),
     Mv("h", "4", "h", "5"),
     Mv("g", "8", "f", "6"),
     Mv("f", "2", "f", "3"),
     Mv("a", "7", "a", "6"),
     Mv("e", "1", "f", "2"),
     Mv("a", "6", "a", "5"),
     Mv("f", "2", "g", "3"),
     Mv("f", "6", "e", "4"),
     Mv("g", "3", "h", "4"),
     Mv("g", "7", "g", "5")>>

\* 1.a4 d5 2.a5 e5 3.a6 d4 4.axb7 e4 5.bxa8: white promotes, and each of
\* black's moves is one the AI can draw
PawnRaceGame ==
  <<Mv("a", "2", "a", "4"),
     Mv("d", "7", "d", "5"),
     Mv("a", "4", "a", "5"),
     Mv("e", "7", "e", "5"),
     Mv("a", "5", "a", "6"),
     Mv("d", "5", "d", "4"),
     Mv("a", "6", "b", "7"),
     Mv("e", "5", "e", "4"),
     Mv("b", "7", "a", "8")>>

\* 1.f3 e5 2.a3 Qh4+ and white, in check, asks for 3.a4
CheckIgnoredTry ==
  <<Mv("f", "2", "f", "3"),
     Mv("e", "7", "e", "5"),
     Mv("a", "2", "a", "3"),
     Mv("d", "8", "h", "4"),
     Mv("a", "3", "a", "4")>>

\* 1.e4 d5 2.exd5 Qxd5 3.h3 Qxd2+ and white, in check, asks for 4.a3
QueenCheckTry ==
  <<Mv("e", "2", "e", "4"),
     Mv("d", "7", "d", "5"),
     Mv("e", "4", "d", "5"),
     Mv("d", "8", "d", "5"),
     Mv("h", "2", "h", "3"),
     Mv("d", "5", "d", "2"),
     Mv("a", "2", "a", "3")>>

\* a pawn asked to advance three squares
PawnJumpTry == <<Mv("e", "2", "e", "5")>>

\* a destination outside the board
BadSquareTry == <<Mv("e", "2", "i", "4")>>

\* 1.e4 e5 and a knight sent to rank 9
BadRankTry ==
  <<Mv("e", "2", "e", "4"),
     Mv("e", "7", "e", "5"),
     Mv("g", "1", "f", "9")>>

Games ==
  {PinnedEnPassantGame,
   KnightRaidGame,
   WhiteEnPassantGame,
   ShortCastleGame,
   PawnOnE2Game,
   KingStepGame,
   RookSwapGame,
   PromotionGame,
   BlackEnPassantGame,
   BlackCastleGame,
   LongCastleGame,
   FoolsMateGame,
   StalemateGame,
   EnPassantEscapeGame,
   PawnRaceGame,
   CheckIgnoredTry,
   QueenCheckTry,
   PawnJumpTry,
   BadSquareTry,
   BadRankTry}

\* the commands of the moves in the history, oldest first
PlayedCommands(history) ==
  [i \in 1 .. Len(history) |->
     <<position_to_notation(history[i].from_pos),
       position_to_notation(history[i].to_pos)>>]

\* the games followed against the AI
AiGames ==
  {PromotionGame, FoolsMateGame, PawnRaceGame, CheckIgnoredTry, QueenCheckTry,
   PawnJumpTry}

\* the next move of every game that began with the moves played so far
Commands(g) ==
  LET played == PlayedCommands(g.move_history)
      n == Len(g.move_history)
      followed == IF g.ai_enabled THEN AiGames ELSE Games
  IN IF n >= MaxPly THEN {}
     ELSE {game[n + 1] : game \in
             {gm \in followed : Len(gm) > n /\ SubSeq(gm, 1, n) = played}}

(***************************************************************************)
(* The state machine.                                                      *)
(***************************************************************************)
Init ==
  /\ board = initialize_board
  /\ current_player = "white"
  /\ move_history = <<>>
  /\ captured_pieces = [white |-> <<>>, black |-> <<>>]
  /\ white_king_moved = FALSE
  /\ black_king_moved = FALSE
  /\ white_rook_a_moved = FALSE
  /\ white_rook_h_moved = FALSE
  /\ black_rook_a_moved = FALSE
  /\ black_rook_h_moved = FALSE
  /\ en_passant_target = NoSquare
  /\ ai_enabled = FALSE
  /\ ai_color = "black"

Becomes(g) ==
  /\ board' = g.board
  /\ current_player' = g.current_player
  /\ move_history' = g.move_history
  /\ captured_pieces' = g.captured_pieces
  /\ white_king_moved' = g.white_king_moved
  /\ black_king_moved' = g.black_king_moved
  /\ white_rook_a_moved' = g.white_rook_a_moved
  /\ white_rook_h_moved' = g.white_rook_h_moved
  /\ black_rook_a_moved' = g.black_rook_a_moved
  /\ black_rook_h_moved' = g.black_rook_h_moved
  /\ en_passant_target' = g.en_passant_target
  /\ ai_enabled' = g.ai_enabled
  /\ ai_color' = g.ai_color

\* would_be_in_check raises TypeError (is_valid_move unpacks to_pos = None)
\* when the mover has no king: the program ends there and no move is made
king_on_board(g) == find_king(g, g.current_player) # NoSquare

\* the composed check of play(): is_valid_move, then would_be_in_check
accepted_without_check_test(g, from_pos, to_pos) ==
  is_valid_move(g, from_pos, to_pos)

accepted(g, from_pos, to_pos) ==
  /\ is_valid_move(g, from_pos, to_pos)
  /\ king_on_board(g)
  /\ ~would_be_in_check(g, from_pos, to_pos)

promotes_pawn(g, from_pos, to_pos) ==
  \/ (at(g.board, from_pos) = "P" /\ to_pos[1] = 0)
  \/ (at(g.board, from_pos) = "p" /\ to_pos[1] = 7)

\* lines typed at the promotion prompt: a choice in either case, or one line
\* that is no choice followed by a choice
AcceptedLines == {"Q", "R", "B", "N", "q", "r", "b", "n"}

RefusedLines == {"K", "P", ""}

PromptInputs ==
  {<<line>> : line \in AcceptedLines}
    \cup {<<refused, line>> : refused \in RefusedLines, line \in AcceptedLines}

\* the promotion prompt is reached only by a promoting move of a human player
PromptChoices(g, from_pos, to_pos) ==
  IF promotes_pawn(g, from_pos, to_pos)
       /\ ~(g.ai_enabled /\ g.current_player = g.ai_color)
    THEN PromptInputs
    ELSE {<<>>}

\* the loop going on whatever is_checkmate and is_stalemate answer
prompt_reached_whatever_the_result(g) == king_on_board(g)

\* the loop of play() reaches its prompt: the game is not over (is_checkmate
\* raises TypeError and ends the program when the king is gone)
prompt_reached(g) ==
  /\ king_on_board(g)
  /\ ~is_checkmate(g)
  /\ ~is_stalemate(g)

\* the prompt is the human player's
human_to_move(g) ==
  /\ prompt_reached(g)
  /\ ~(g.ai_enabled /\ g.current_player = g.ai_color)

\* a move command: parsed, checked, applied
MakeMove ==
  /\ \E cmd \in Commands(Game) :
       LET from_pos == parse_position(cmd[1])
           to_pos == parse_position(cmd[2])
       IN /\ from_pos # NoSquare
          /\ to_pos # NoSquare
          /\ accepted(Game, from_pos, to_pos)
          /\ human_to_move(Game)
          /\ \E choice \in PromptChoices(Game, from_pos, to_pos) :
               Becomes(make_move(Game, from_pos, to_pos, choice))

\* the command does not parse, or fails one of the two checks
rejected(g, cmd) ==
  LET from_pos == parse_position(cmd[1])
      to_pos == parse_position(cmd[2])
  IN IF from_pos = NoSquare THEN TRUE
     ELSE IF to_pos = NoSquare THEN TRUE
     ELSE ~accepted(g, from_pos, to_pos)

\* a rejected move command: a message is printed and the loop goes round
RejectMove ==
  /\ \E cmd \in Commands(Game) : rejected(Game, cmd)
  /\ human_to_move(Game)
  /\ UNCHANGED vars

\* the 'undo' command: one undo_move, and a second one when the AI plays
undo_command(g) == IF g.ai_enabled THEN undo_move(undo_move(g)) ELSE undo_move(g)

\* 'undo' with moves to undo
UndoMove ==
  /\ move_history # <<>>
  /\ human_to_move(Game)
  /\ Becomes(undo_command(Game))

\* 'undo' on an empty history: undo_move prints and returns False
UndoNothing ==
  /\ move_history = <<>>
  /\ human_to_move(Game)
  /\ Becomes(undo_command(Game))

Next == MakeMove \/ RejectMove \/ UndoMove \/ UndoNothing

\* two human players: 'n' is answered to "Play against AI?"
Spec == Init /\ [][Next]_vars

\* the same two players when 'undo' is never typed
NextGames == MakeMove \/ RejectMove

SpecGames == Init /\ [][NextGames]_vars

(***************************************************************************)
(* Play against the AI: 'y' is answered to "Play against AI?" and a colour *)
(* is chosen for it.                                                       *)
(***************************************************************************)
piece_values(piece_type) ==
  CASE piece_type = "p" -> 1
    [] piece_type = "n" -> 3
    [] piece_type = "b" -> 3
    [] piece_type = "r" -> 5
    [] piece_type = "q" -> 9
    [] piece_type = "k" -> 0

center_squares == {<<3, 3>>, <<3, 4>>, <<4, 3>>, <<4, 4>>}

\* score_move without its random term, which is drawn from [0, 1)
score_move(g, from_pos, to_pos) ==
  LET target == at(g.board, to_pos) IN
    (IF target # None THEN piece_values(lower(target)) * 10 ELSE 0)
      + (IF to_pos \in center_squares THEN 2 ELSE 0)

\* the moves make_ai_move collects
ai_valid_moves(g) ==
  LET ai_pieces ==
        {sq \in Squares :
           IF g.ai_color = "white" THEN is_white_piece(at(g.board, sq))
           ELSE is_black_piece(at(g.board, sq))}
  IN {m \in ai_pieces \X Squares :
        is_valid_move(g, m[1], m[2]) /\ ~would_be_in_check(g, m[1], m[2])}

\* the moves random.choice can return: those sorted among the first three for
\* some draw of the random terms.  Scores without the random term are whole
\* numbers, so a move with a greater one is always sorted first, and a move
\* can be drawn when fewer than three moves have a greater one.
ai_top_moves(g) ==
  LET valid_moves == ai_valid_moves(g)
      scores == {score_move(g, m[1], m[2]) : m \in valid_moves}
      sorted_before(score) ==
        Cardinality({o \in valid_moves : score_move(g, o[1], o[2]) > score})
      top_scores == {score \in scores : sorted_before(score) < 3}
  IN {m \in valid_moves : score_move(g, m[1], m[2]) \in top_scores}

AiFreePly == 2

\* the draws of random.choice the model follows: any of the top moves during
\* the first AiFreePly moves of the game, afterwards those that play the next
\* move of one of the games
ai_draws(g) ==
  {m \in ai_top_moves(g) :
     IF Len(g.move_history) < AiFreePly THEN TRUE
     ELSE <<position_to_notation(m[1]), position_to_notation(m[2])>>
            \in Commands(g)}

InitPlay ==
  /\ board = initialize_board
  /\ current_player = "white"
  /\ move_history = <<>>
  /\ captured_pieces = [white |-> <<>>, black |-> <<>>]
  /\ white_king_moved = FALSE
  /\ black_king_moved = FALSE
  /\ white_rook_a_moved = FALSE
  /\ white_rook_h_moved = FALSE
  /\ black_rook_a_moved = FALSE
  /\ black_rook_h_moved = FALSE
  /\ en_passant_target = NoSquare
  /\ ai_enabled = TRUE
  /\ ai_color \in {"white", "black"}

\* the AI's turn in the loop of play(): make_ai_move
AiMove ==
  /\ ai_enabled
  /\ current_player = ai_color
  /\ Len(move_history) < MaxPly
  /\ prompt_reached(Game)
  /\ \E m \in ai_draws(Game) : Becomes(make_move(Game, m[1], m[2], <<>>))

NextPlay == MakeMove \/ RejectMove \/ UndoMove \/ UndoNothing \/ AiMove

SpecPlay == InitPlay /\ [][NextPlay]_vars

\* the winner printed with "CHECKMATE!"
announced_winner(g) == IF g.current_player = "white" THEN "Black" ELSE "White"

\* the loop of play() with either answer to "Play against AI?"
InitLoop == Init \/ InitPlay

SpecLoop == InitLoop /\ [][NextPlay]_vars

(***************************************************************************)
(* What display_move_history prints: the count in its header line and the  *)
(* lines under it, each with its number, its player and the move it names. *)
(* Nothing is printed for an empty history.                                *)
(***************************************************************************)
display_move_history(g, last_n) ==
  LET length == Len(g.move_history)
      \* self.move_history[-last_n:]
      recent == IF last_n >= length THEN g.move_history
                ELSE SubSeq(g.move_history, length - last_n + 1, length)
      numbered == [i \in 1 .. Len(recent) |->
                     LET move_num == length - last_n + i IN
                       [move_num |-> move_num,
                        player |-> IF move_num % 2 = 1 THEN "White" ELSE "Black",
                        move |-> recent[i]]]
      printed(line) == line.move_num > 0
  IN IF length = 0 THEN [header |-> None, lines |-> <<>>]
     ELSE [header |-> IF last_n < length THEN last_n ELSE length,
           lines |-> SelectSeq(numbered, printed)]

MaxLastN == 6

(***************************************************************************)
(* Saving and loading.  json.dump writes a tuple as an array and json.load *)
(* reads an array as a list: a position that was the tuple (row, col) is   *)
(* the list [row, col] after the round trip.  A list is written here as    *)
(* <<row, col, "list">>: it is indexed like the tuple and, as in Python,   *)
(* it is not equal to it.                                                  *)
(***************************************************************************)
as_list(pos) == IF pos = NoSquare THEN NoSquare ELSE <<pos[1], pos[2], "list">>

\* the content of chess_save.json, as json.load reads it
save_game(g) ==
  [board |-> g.board,
   current_player |-> g.current_player,
   move_history |->
     [i \in 1 .. Len(g.move_history) |->
        [g.move_history[i] EXCEPT
           !.from_pos = as_list(@),
           !.to_pos = as_list(@),
           !.en_passant_target_before = as_list(@)]],
   captured_pieces |-> g.captured_pieces,
   white_king_moved |-> g.white_king_moved,
   black_king_moved |-> g.black_king_moved,
   white_rook_a_moved |-> g.white_rook_a_moved,
   white_rook_h_moved |-> g.white_rook_h_moved,
   black_rook_a_moved |-> g.black_rook_a_moved,
   black_rook_h_moved |-> g.black_rook_h_moved,
   en_passant_target |-> as_list(g.en_passant_target)]

load_game(g, game_state) ==
  [g EXCEPT
     !.board = game_state.board,
     !.current_player = game_state.current_player,
     !.move_history = game_state.move_history,
     !.captured_pieces = game_state.captured_pieces,
     !.white_king_moved = game_state.white_king_moved,
     !.black_king_moved = game_state.black_king_moved,
     !.white_rook_a_moved = game_state.white_rook_a_moved,
     !.white_rook_h_moved = game_state.white_rook_h_moved,
     !.black_rook_a_moved = game_state.black_rook_a_moved,
     !.black_rook_h_moved = game_state.black_rook_h_moved,
     !.en_passant_target = game_state.en_passant_target]

\* the game is saved at the prompt ('save', or 'quit' answering y), the
\* program is started again and 'y' is answered to "Load saved game?"
SaveAndLoad ==
  /\ human_to_move(Game)
  /\ Becomes(load_game(Game, save_game(Game)))

NextSaveLoad == MakeMove \/ RejectMove \/ UndoMove \/ UndoNothing \/ SaveAndLoad

SpecSaveLoad == Init /\ [][NextSaveLoad]_vars

(***************************************************************************)
(* The calls made while a square is probed.  is_square_attacked asks       *)
(* is_valid_move for every piece of by_color; only a king asked for a step *)
(* of two columns along its row leads on, through is_valid_king_move and   *)
(* can_castle, to further calls of is_square_attacked.                     *)
(***************************************************************************)
\* can_castle going on to its probes whatever its earlier tests find
castling_probes_unguarded(g, from_pos, to_pos) ==
  LET lo == IF from_pos[2] < to_pos[2] THEN from_pos[2] ELSE to_pos[2]
      hi == IF from_pos[2] < to_pos[2] THEN to_pos[2] ELSE from_pos[2]
  IN {<<from_pos[1], col>> : col \in lo .. hi}

\* the squares can_castle passes to is_square_attacked: none when one of
\* its earlier tests returns False
castling_probes(g, from_pos, to_pos) ==
  LET from_row == from_pos[1]
      from_col == from_pos[2]
      to_row == to_pos[1]
      to_col == to_pos[2]
      piece == at(g.board, from_pos)
      kingside == to_col > from_col
      rook_col == IF kingside THEN 7 ELSE 0
      cols_between == IF kingside THEN (from_col + 1) .. (rook_col - 1)
                      ELSE (rook_col + 1) .. (from_col - 1)
      expected_rook == IF is_white_piece(piece) THEN "R" ELSE "r"
      lo == IF from_col < to_col THEN from_col ELSE to_col
      hi == IF from_col < to_col THEN to_col ELSE from_col
  IN IF piece = "K" /\ g.white_king_moved THEN {}
     ELSE IF piece = "k" /\ g.black_king_moved THEN {}
     ELSE IF from_row # to_row THEN {}
     ELSE IF kingside /\ piece = "K" /\ g.white_rook_h_moved THEN {}
     ELSE IF kingside /\ piece = "k" /\ g.black_rook_h_moved THEN {}
     ELSE IF ~kingside /\ piece = "K" /\ g.white_rook_a_moved THEN {}
     ELSE IF ~kingside /\ piece = "k" /\ g.black_rook_a_moved THEN {}
     ELSE IF g.board[from_row][rook_col] # expected_rook THEN {}
     ELSE IF \E col \in cols_between : g.board[from_row][col] # None THEN {}
     ELSE {<<from_row, col>> : col \in lo .. hi}

\* the pieces of by_color for which is_valid_move, asked for pos, calls
\* can_castle
castling_callers(g, pos, by_color) ==
  {sq \in Squares :
     LET piece == at(g.board, sq) IN
       /\ piece = (IF by_color = "white" THEN "K" ELSE "k")
       /\ sq # pos
       /\ ~(by_color = "white" /\ is_white_piece(at(g.board, pos)))
       /\ ~(by_color = "black" /\ is_black_piece(at(g.board, pos)))
       /\ abs(sq[1] - pos[1]) = 0
       /\ abs(sq[2] - pos[2]) = 2}

MaxOf(numbers) == CHOOSE n \in numbers : \A m \in numbers : m <= n

RECURSIVE is_square_attacked_depth(_, _, _, _)
\* how many calls of is_square_attacked are open at once, at most, while
\* is_square_attacked(pos, by_color) runs; the count stops at limit + 1
is_square_attacked_depth(g, pos, by_color, limit) ==
  LET probing == [g EXCEPT !.current_player = by_color]
      probes == UNION {castling_probes(probing, sq, pos) :
                         sq \in castling_callers(g, pos, by_color)}
  IN IF limit = 0 THEN 1
     ELSE 1 + MaxOf({0} \cup
                    {is_square_attacked_depth(probing, probe,
                                              other_player(by_color), limit - 1) :
                       probe \in probes})

(***************************************************************************)
(* Positions set up to probe: both kings on one row, a rook of either      *)
(* colour on each free corner of that row, every castling flag either way. *)
(***************************************************************************)
MaxDepth == 4

ProbeRows == {7}

ProbeBoard(row, white_king, black_king, left, right) ==
  [r \in Rows |->
     [c \in Rows |->
        IF r # row THEN None
        ELSE IF c = white_king THEN "K"
        ELSE IF c = black_king THEN "k"
        ELSE IF c = 0 THEN left
        ELSE IF c = 7 THEN right
        ELSE None]]

InitProbe ==
  /\ \E row \in ProbeRows, white_king \in Rows, black_king \in Rows,
        left \in {"R", "r"}, right \in {"R", "r"} :
       /\ white_king # black_king
       /\ board = ProbeBoard(row, white_king, black_king, left, right)
  /\ current_player = "white"
  /\ move_history = <<>>
  /\ captured_pieces = [white |-> <<>>, black |-> <<>>]
  /\ white_king_moved \in BOOLEAN
  /\ black_king_moved \in BOOLEAN
  /\ white_rook_a_moved \in BOOLEAN
  /\ white_rook_h_moved = white_rook_a_moved
  /\ black_rook_a_moved \in BOOLEAN
  /\ black_rook_h_moved = black_rook_a_moved
  /\ en_passant_target = NoSquare
  /\ ai_enabled = FALSE
  /\ ai_color = "black"

\* is_square_attacked is called and returns
ProbeSquare ==
  \E pos \in Squares, by_color \in {"white", "black"} :
    Becomes(after_is_square_attacked(Game, pos, by_color))

NextProbe == ProbeSquare

SpecProbe == InitProbe /\ [][NextProbe]_vars

(***************************************************************************)
(* Vocabulary of the properties below.                                     *)
(***************************************************************************)
Last(seq) == seq[Len(seq)]

\* the squares holding a piece of the side to move
OwnSquares(g) ==
  {sq \in Squares :
     IF g.current_player = "white" THEN is_white_piece(at(g.board, sq))
     ELSE is_black_piece(at(g.board, sq))}

\* every move the composed legality check accepts in g
LegalMoves(g) ==
  {m \in OwnSquares(g) \X Squares : accepted(g, m[1], m[2])}

\* make_move followed immediately by undo_move
RoundTrip(g, m, choice) == undo_move(make_move(g, m[1], m[2], choice))

CastlingFlags(g) ==
  <<g.white_king_moved, g.black_king_moved,
    g.white_rook_a_moved, g.white_rook_h_moved,
    g.black_rook_a_moved, g.black_rook_h_moved>>

\* C1: make_move then undo_move restores the board, the side to move, the
\* captured-piece lists and the length of the move history, for every legal
\* move of every reachable position.
C1_RoundTripRestoresPosition ==
  \A m \in LegalMoves(Game) :
    \A choice \in PromptChoices(Game, m[1], m[2]) :
      LET back == RoundTrip(Game, m, choice) IN
        /\ back.board = board
        /\ back.current_player = current_player
        /\ back.captured_pieces = captured_pieces
        /\ Len(back.move_history) = Len(move_history)

\* C2: make_move then undo_move restores all six 'has moved' flags, for
\* every legal move of every reachable position.
C2_RoundTripRestoresCastlingFlags ==
  \A m \in LegalMoves(Game) :
    \A choice \in PromptChoices(Game, m[1], m[2]) :
      CastlingFlags(RoundTrip(Game, m, choice)) = CastlingFlags(Game)

\* C3: the move record's en_passant_target_before is the en-passant target
\* on entry to make_move, and make_move then undo_move restores that target.
C3_RecordKeepsPriorEnPassantTarget ==
  \A m \in LegalMoves(Game) :
    \A choice \in PromptChoices(Game, m[1], m[2]) :
      LET after == make_move(Game, m[1], m[2], choice) IN
        /\ Last(after.move_history).en_passant_target_before = en_passant_target
        /\ undo_move(after).en_passant_target = en_passant_target

\* C4: no destination returned by get_all_valid_moves leaves the mover's
\* king attacked once make_move has applied the move.
C4_ValidMovesLeaveKingSafe ==
  king_on_board(Game) =>
    \A s \in OwnSquares(Game) :
      \A d \in get_all_valid_moves(Game, s) :
        \A choice \in PromptChoices(Game, s, d) :
          LET after == make_move(Game, s, d, choice) IN
            ~is_square_attacked(after, find_king(after, current_player),
                                other_player(current_player))

KingCount(b, king) == Cardinality({sq \in Squares : at(b, sq) = king})

\* C5: the board always holds exactly one white king and one black king.
C5_OneKingOfEachColour ==
  KingCount(board, "K") = 1 /\ KingCount(board, "k") = 1

(***************************************************************************)
(* Attack by the rules of chess, written independently of is_valid_move:   *)
(* a pawn attacks the two squares diagonally ahead of it, whatever stands  *)
(* on them.                                                                *)
(***************************************************************************)
sign(x) == IF x > 0 THEN 1 ELSE IF x < 0 THEN -1 ELSE 0

LineOpen(b, from_pos, to_pos) ==
  LET dr == to_pos[1] - from_pos[1]
      dc == to_pos[2] - from_pos[2]
      n == IF abs(dr) > abs(dc) THEN abs(dr) ELSE abs(dc)
  IN \A k \in 1 .. (n - 1) :
       b[from_pos[1] + k * sign(dr)][from_pos[2] + k * sign(dc)] = None

Attacks(b, from_pos, to_pos) ==
  LET piece == at(b, from_pos)
      dr == to_pos[1] - from_pos[1]
      dc == to_pos[2] - from_pos[2]
      straight == (dr = 0) # (dc = 0)
      diagonal == abs(dr) = abs(dc) /\ dr # 0
  IN CASE piece = "P" -> dr = -1 /\ abs(dc) = 1
       [] piece = "p" -> dr = 1 /\ abs(dc) = 1
       [] lower(piece) = "n" -> {abs(dr), abs(dc)} = {1, 2}
       [] lower(piece) = "k" -> abs(dr) <= 1 /\ abs(dc) <= 1 /\ from_pos # to_pos
       [] lower(piece) = "r" -> straight /\ LineOpen(b, from_pos, to_pos)
       [] lower(piece) = "b" -> diagonal /\ LineOpen(b, from_pos, to_pos)
       [] lower(piece) = "q" -> (straight \/ diagonal) /\ LineOpen(b, from_pos, to_pos)
       [] OTHER -> FALSE

AttackedBy(b, pos, color) ==
  \E sq \in Squares :
    /\ IF color = "white" THEN is_white_piece(at(b, sq)) ELSE is_black_piece(at(b, sq))
    /\ Attacks(b, sq, pos)

\* the two-column king moves of the side to move: <<from, to>>
CastlingAttempts(g) ==
  {m \in OwnSquares(g) \X Squares :
     /\ lower(at(g.board, m[1])) = "k"
     /\ m[1][1] = m[2][1]
     /\ abs(m[1][2] - m[2][2]) = 2}

\* the king's start square, the square it crosses and its end square
KingPath(m) ==
  {<<m[1][1], col>> : col \in
     (IF m[1][2] < m[2][2] THEN m[1][2] ELSE m[2][2]) ..
     (IF m[1][2] < m[2][2] THEN m[2][2] ELSE m[1][2])}

\* C6: a two-column king move is rejected whenever a square of the king's
\* path is attacked by an opposing piece, a pawn's diagonal attack included.
C6_NoCastlingThroughAttack ==
  \A m \in CastlingAttempts(Game) :
    (\E sq \in KingPath(m) : AttackedBy(board, sq, other_player(current_player)))
      => ~is_valid_move(Game, m[1], m[2])

\* no move of the game as it stands has left or reached the square
Untouched(history, pos) ==
  \A i \in 1 .. Len(history) :
    history[i].from_pos # pos /\ history[i].to_pos # pos

CastlingCorner(m) == <<m[1][1], IF m[2][2] > m[1][2] THEN 7 ELSE 0>>

RookSquareAfterCastling(m) == <<m[1][1], IF m[2][2] > m[1][2] THEN 5 ELSE 3>>

SquaresBetween(a, b) ==
  {<<a[1], col>> : col \in
     ((IF a[2] < b[2] THEN a[2] ELSE b[2]) + 1) ..
     ((IF a[2] < b[2] THEN b[2] ELSE a[2]) - 1)}

\* king and rook of the mover stand on their home squares and neither has
\* moved in the game as it stands; nothing stands between them
CastlingPiecesReady(g, m) ==
  LET rook == IF g.current_player = "white" THEN "R" ELSE "r"
      home == <<IF g.current_player = "white" THEN 7 ELSE 0, 4>>
  IN /\ m[1] = home
     /\ at(g.board, CastlingCorner(m)) = rook
     /\ Untouched(g.move_history, home)
     /\ Untouched(g.move_history, CastlingCorner(m))
     /\ \A sq \in SquaresBetween(home, CastlingCorner(m)) : at(g.board, sq) = None

\* C7: with king and rook unmoved on their home squares, the squares
\* between them empty and no square of the king's path attacked, the
\* two-column king move is accepted, and applying it puts the king on the
\* g- or c-file and the rook on the f- or d-file, leaving the corner and the
\* king's home square empty.
C7_CastlingAcceptedAndApplied ==
  \A m \in CastlingAttempts(Game) :
    (/\ CastlingPiecesReady(Game, m)
     /\ \A sq \in KingPath(m) :
          ~AttackedBy(board, sq, other_player(current_player)))
    => /\ is_valid_move(Game, m[1], m[2])
       /\ LET after == make_move(Game, m[1], m[2], <<"Q">>) IN
            /\ at(after.board, m[2]) = at(board, m[1])
            /\ m[2][2] \in {2, 6}
            /\ at(after.board, RookSquareAfterCastling(m)) = at(board, CastlingCorner(m))
            /\ at(after.board, CastlingCorner(m)) = None
            /\ at(after.board, m[1]) = None

\* C8: a two-column king move is accepted only if the king has never moved
\* and the rook standing on the corner of that side has never moved.
C8_CastlingOnlyWithUnmovedKingAndRook ==
  \A m \in CastlingAttempts(Game) :
    is_valid_move(Game, m[1], m[2])
      => /\ Untouched(move_history, m[1])
         /\ Untouched(move_history, CastlingCorner(m))

\* the legal two-square pawn advances of the side to move
DoubleSteps(g) ==
  {m \in LegalMoves(g) :
     lower(at(g.board, m[1])) = "p" /\ abs(m[2][1] - m[1][1]) = 2}

SkippedSquare(m) == <<(m[1][1] + m[2][1]) \div 2, m[1][2]>>

\* the squares beside the advanced pawn that hold a pawn of the other side
PawnsBeside(g, pos) ==
  {sq \in {<<pos[1], pos[2] - 1>>, <<pos[1], pos[2] + 1>>} \cap Squares :
     at(g.board, sq) = (IF g.current_player = "white" THEN "P" ELSE "p")}

C10_EnPassantTargetFollowsDoubleStep ==
  en_passant_target # NoSquare =>
    /\ move_history # <<>>
    /\ LET record == Last(move_history) IN
         /\ lower(record.piece) = "p"
         /\ abs(record.to_pos[1] - record.from_pos[1]) = 2
         /\ (IF current_player = "white" THEN is_black_piece(record.piece)
             ELSE is_white_piece(record.piece))
         /\ en_passant_target = SkippedSquare(<<record.from_pos, record.to_pos>>)

\* every <<from, to>> that get_all_valid_moves offers in g
AllValidMoves(g) ==
  {m \in Squares \X Squares : m[2] \in get_all_valid_moves(g, m[1])}

\* C11: with the pieces on their initial squares and white to move, the
\* moves get_all_valid_moves offers over all squares are exactly 20, 16 by
\* pawns and 4 by knights; none is a castling move or a diagonal pawn move
\* onto an empty square, and en_passant_target is empty.
C11_InitialPositionHasTwentyMoves ==
  (board = initialize_board /\ current_player = "white")
    => LET moves == AllValidMoves(Game) IN
         /\ en_passant_target = NoSquare
         /\ Cardinality(moves) = 20
         /\ Cardinality({m \in moves : at(board, m[1]) = "P"}) = 16
         /\ Cardinality({m \in moves : at(board, m[1]) = "N"}) = 4
         /\ \A m \in moves :
              /\ ~(at(board, m[1]) = "K" /\ abs(m[1][2] - m[2][2]) = 2)
              /\ ~(at(board, m[1]) = "P" /\ m[1][2] # m[2][2])

\* the move passes is_valid_move and, once make_move has applied it, the
\* mover's king stands on the board and no opposing piece attacks it
EscapesOnceApplied(g, m) ==
  /\ is_valid_move(g, m[1], m[2])
  /\ LET after == make_move(g, m[1], m[2], <<"Q">>)
         king_pos == find_king(after, g.current_player)
     IN /\ king_pos # NoSquare
        /\ ~AttackedBy(after.board, king_pos, other_player(g.current_player))

\* C12: is_checkmate is true exactly when the king of the side to move is
\* attacked and no move of that side (a capture en passant included) is
\* valid and leaves the king unattacked once applied.
C12_CheckmateMeansNoEscape ==
  king_on_board(Game) =>
    IF AttackedBy(board, find_king(Game, current_player), other_player(current_player))
      THEN is_checkmate(Game)
             = ~(\E m \in OwnSquares(Game) \X Squares : EscapesOnceApplied(Game, m))
      ELSE ~is_checkmate(Game)

\* C13: is_stalemate is true exactly when the king of the side to move is not
\* attacked and no piece of that side has a destination that passes
\* is_valid_move and fails would_be_in_check.
C13_StalemateMeansNoMoveAndNoCheck ==
  king_on_board(Game) =>
    is_stalemate(Game)
      = (/\ ~AttackedBy(board, find_king(Game, current_player),
                        other_player(current_player))
         /\ ~(\E m \in OwnSquares(Game) \X Squares :
                is_valid_move(Game, m[1], m[2])
                  /\ ~would_be_in_check(Game, m[1], m[2])))

\* C13 (witness): the side to move is stalemated
C13_StalemateReached ==
  /\ king_on_board(Game)
  /\ is_stalemate(Game)
  /\ move_history # <<>>

\* C14: undo_move on an empty history returns False and leaves the board,
\* the side to move, the castling flags, the en-passant target, the captured
\* pieces and the history as they were.
C14_UndoOnEmptyHistoryIsNoOp ==
  move_history = <<>> =>
    /\ ~undo_move_returns(Game)
    /\ undo_move(Game) = Game

\* C14 (witness): the history is empty again after moves were played and
\* taken back, and undo_move is called once more
C14_UndoCalledOnEmptiedHistory ==
  /\ move_history = <<>>
  /\ white_king_moved
  /\ ~undo_move_returns(Game)
  /\ undo_move(Game) = Game

\* C15: saving the position with save_game and restoring it with load_game
\* gives a position where is_valid_move answers as before for every pair of
\* squares, would_be_in_check answers as before for every pair is_valid_move
\* accepts, get_all_valid_moves lists the same moves from every square (an
\* en-passant capture available at the save included), and undo_move
\* leaves the same saved position as it would without the save and load.
C15_SaveLoadPreservesLegality ==
  LET reloaded == load_game(Game, save_game(Game)) IN
  /\ \A from_pos \in Squares, to_pos \in Squares :
       /\ is_valid_move(reloaded, from_pos, to_pos)
            = is_valid_move(Game, from_pos, to_pos)
       /\ is_valid_move(Game, from_pos, to_pos)
            => would_be_in_check(reloaded, from_pos, to_pos)
                 = would_be_in_check(Game, from_pos, to_pos)
  /\ \A pos \in Squares :
       get_all_valid_moves(reloaded, pos) = get_all_valid_moves(Game, pos)
  /\ save_game(undo_move(reloaded)) = save_game(undo_move(Game))

PromotingMoves(g) ==
  {m \in Squares \X Squares :
     promotes_pawn(g, m[1], m[2]) /\ accepted(g, m[1], m[2])}

PieceOfColour(piece, letter) ==
  IF is_white_piece(piece) THEN letter ELSE lower(letter)

\* C16: a pawn moved onto the farthest rank is replaced on the destination
\* square, and nowhere else, by a piece of the mover's colour: the queen
\* when the mover is the AI, and otherwise the piece named by the first
\* line typed that is Q, R, B or N in either case; the lines refused before
\* it change nothing, each of the four pieces can be obtained, and the
\* record of the move names the piece standing on the square.
C16_PromotionPlacesTheChosenPiece ==
  /\ \A m \in PromotingMoves(Game) :
       LET pawn == at(board, m[1])
           by_ai == ai_enabled /\ current_player = ai_color
           placed(typed) == at(make_move(Game, m[1], m[2], typed).board, m[2])
       IN /\ \A typed \in PromptInputs :
               LET line == typed[Len(typed)]
                   next == make_move(Game, m[1], m[2], typed)
               IN /\ placed(typed) =
                       IF by_ai THEN PieceOfColour(pawn, "Q")
                       ELSE PieceOfColour(pawn, upper(line))
                  /\ next = make_move(Game, m[1], m[2], <<line>>)
                  /\ \A pos \in Squares \ {m[1], m[2]} :
                       at(next.board, pos) = at(board, pos)
                  /\ at(next.board, m[1]) = None
                  /\ Last(next.move_history).promoted_to
                       = IF by_ai THEN placed(typed) ELSE upper(line)
          /\ ~by_ai =>
               {placed(typed) : typed \in PromptInputs}
                 = {PieceOfColour(pawn, letter) : letter \in PromotionChoices}
  /\ (move_history # <<>> /\ Last(move_history).promoted_to # None) =>
       LET move == Last(move_history)
           placed == at(board, move.to_pos)
       IN /\ is_white_piece(placed) = is_white_piece(move.piece)
          /\ lower(placed) \in {"q", "r", "b", "n"}
          /\ lower(placed) = lower(move.promoted_to)
          /\ (ai_enabled /\ current_player # ai_color) => lower(placed) = "q"

\* the human player has promoted to a piece other than the queen
C16_HumanUnderPromoted ==
  /\ ai_enabled
  /\ current_player = ai_color
  /\ move_history # <<>>
  /\ Last(move_history).promoted_to \in {"R", "B", "N"}
  /\ at(board, Last(move_history).to_pos) = Last(move_history).promoted_to

\* C17: every step of the game loop that changes the position either takes
\* a move back (the history gets shorter) or applies make_move once, for a
\* pair of squares for which, on the position before the step,
\* is_valid_move is true and would_be_in_check is false; a command failing
\* either check therefore leaves the position and the side to move as they
\* were.
C17_MovesAppliedOnlyAfterBothChecks ==
  [][ \/ Len(move_history') < Len(move_history)
      \/ /\ Len(move_history') = Len(move_history) + 1
         /\ LET move == Last(move_history')
            IN /\ is_valid_move(Game, move.from_pos, move.to_pos)
               /\ ~would_be_in_check(Game, move.from_pos, move.to_pos)
               /\ \E typed \in PromptChoices(Game, move.from_pos, move.to_pos) :
                    Game' = make_move(Game, move.from_pos, move.to_pos, typed)
    ]_vars

\* after moves of both players, the human player asks for a move that
\* is_valid_move accepts and would_be_in_check refuses
C17_MoveLeavingKingInCheckAsked ==
  /\ ai_enabled
  /\ Len(move_history) >= 2
  /\ human_to_move(Game)
  /\ \E cmd \in Commands(Game) :
       LET from_pos == parse_position(cmd[1])
           to_pos == parse_position(cmd[2])
       IN /\ from_pos # NoSquare
          /\ to_pos # NoSquare
          /\ is_valid_move(Game, from_pos, to_pos)
          /\ would_be_in_check(Game, from_pos, to_pos)
          /\ rejected(Game, cmd)

\* C18: in a position holding both kings, would_be_in_check, for every pair
\* of squares, and is_square_attacked, for every square and colour, leave
\* the board, the side to move, the castling flags, the en-passant target
\* and the move history as they were when the query was entered.
C18_QueriesLeaveThePositionAsEntered ==
  (KingCount(board, "K") = 1 /\ KingCount(board, "k") = 1) =>
    /\ \A from_pos \in Squares, to_pos \in Squares :
         after_would_be_in_check(Game, from_pos, to_pos) = Game
    /\ \A pos \in Squares, by_color \in {"white", "black"} :
         after_is_square_attacked(Game, pos, by_color) = Game

PawnSquares(g) == {pos \in Squares : lower(at(g.board, pos)) = "p"}

\* the pawn rule, by the displacement of the move; `takes` tells which
\* pieces a diagonal step may land on
PawnRule(g, from_pos, to_pos, takes(_, _)) ==
  LET pawn == at(g.board, from_pos)
      forward == IF pawn = "P" THEN -1 ELSE 1
      home == IF pawn = "P" THEN 6 ELSE 1
      rows == to_pos[1] - from_pos[1]
      cols == abs(to_pos[2] - from_pos[2])
      empty(pos) == at(g.board, pos) = None
  IN \/ cols = 0 /\ rows = forward /\ empty(to_pos)
     \/ /\ cols = 0
        /\ rows = 2 * forward
        /\ from_pos[1] = home
        /\ empty(<<from_pos[1] + forward, from_pos[2]>>)
        /\ empty(to_pos)
     \/ cols = 1 /\ rows = forward /\ takes(pawn, at(g.board, to_pos))
     \/ /\ cols = 1
        /\ rows = forward
        /\ empty(to_pos)
        /\ to_pos = g.en_passant_target

EnemyPiece(pawn, target) ==
  IF pawn = "P" THEN is_black_piece(target) ELSE is_white_piece(target)

AnyPiece(pawn, target) == target # None

\* C19 as stated: is_valid_pawn_move accepts a pawn move exactly when it is
\* one square forward onto an empty square, two squares forward from the
\* home rank over an empty square onto an empty square, one square
\* diagonally forward onto an enemy piece, or one square diagonally forward
\* onto the empty en-passant target.
C19_PawnMovesAsStated ==
  \A from_pos \in PawnSquares(Game), to_pos \in Squares :
    is_valid_pawn_move(Game, from_pos, to_pos)
      <=> PawnRule(Game, from_pos, to_pos, EnemyPiece)

\* C19: is_valid_pawn_move accepts a pawn move exactly when it is one
\* square forward onto an empty square, two squares forward from the home
\* rank over an empty square onto an empty square, one square diagonally
\* forward onto an occupied square, or one square diagonally forward onto
\* the empty en-passant target; is_valid_move, which refuses a destination
\* holding a piece of the mover before it asks is_valid_pawn_move, accepts
\* for a pawn of the side to move exactly the moves of the rule with the
\* diagonal step landing on an enemy piece.
C19_PawnMovesWithOccupiedDiagonal ==
  \A from_pos \in PawnSquares(Game), to_pos \in Squares :
    /\ is_valid_pawn_move(Game, from_pos, to_pos)
         <=> PawnRule(Game, from_pos, to_pos, AnyPiece)
    /\ (at(board, from_pos) = IF current_player = "white" THEN "P" ELSE "p")
         => (is_valid_move(Game, from_pos, to_pos)
               <=> PawnRule(Game, from_pos, to_pos, EnemyPiece))

\* a pawn of the side to move stands diagonally behind a piece of its own
\* side, another can capture an enemy piece, another is on its home rank
\* behind an occupied square
C19_PawnBehindOwnPiece ==
  /\ move_history # <<>>
  /\ \E from_pos \in PawnSquares(Game), to_pos \in Squares :
       /\ is_valid_pawn_move(Game, from_pos, to_pos)
       /\ ~is_valid_move(Game, from_pos, to_pos)
       /\ ~EnemyPiece(at(board, from_pos), at(board, to_pos))
       /\ at(board, from_pos) = IF current_player = "white" THEN "P" ELSE "p"
  /\ \E from_pos \in PawnSquares(Game), to_pos \in Squares :
       /\ is_valid_move(Game, from_pos, to_pos)
       /\ at(board, to_pos) # None
  /\ \E from_pos \in PawnSquares(Game) :
       LET forward == IF at(board, from_pos) = "P" THEN -1 ELSE 1 IN
         /\ from_pos[1] = (IF at(board, from_pos) = "P" THEN 6 ELSE 1)
         /\ at(board, <<from_pos[1] + forward, from_pos[2]>>) # None
         /\ at(board, <<from_pos[1] + 2 * forward, from_pos[2]>>) = None

OnRowOrColumn(from_pos, to_pos) ==
  from_pos[1] = to_pos[1] \/ from_pos[2] = to_pos[2]

OnDiagonal(from_pos, to_pos) ==
  abs(from_pos[1] - to_pos[1]) = abs(from_pos[2] - to_pos[2])

AlignedPairs ==
  {m \in Squares \X Squares :
     m[1] # m[2] /\ (OnRowOrColumn(m[1], m[2]) \/ OnDiagonal(m[1], m[2]))}

\* the squares strictly between two aligned squares
Between(from_pos, to_pos) ==
  {pos \in Squares :
     /\ pos # from_pos
     /\ pos # to_pos
     /\ (OnRowOrColumn(from_pos, to_pos) => OnRowOrColumn(from_pos, pos))
     /\ (OnDiagonal(from_pos, to_pos) => OnDiagonal(from_pos, pos))
     /\ (from_pos[1] = to_pos[1] => pos[1] = from_pos[1])
     /\ (from_pos[2] = to_pos[2] => pos[2] = from_pos[2])
     /\ (pos[1] - from_pos[1]) * (pos[1] - to_pos[1]) <= 0
     /\ (pos[2] - from_pos[2]) * (pos[2] - to_pos[2]) <= 0}

Jumps(b, from_pos, to_pos) ==
  \E pos \in Between(from_pos, to_pos) : at(b, pos) # None

\* C20: for two distinct squares on one row, column or diagonal,
\* is_path_clear is false exactly when a square strictly between them is
\* occupied, whatever stands on the destination, its scan staying on the
\* board; a rook move is accepted only along a row or column, a bishop move
\* only along a diagonal, a queen move only along one of them, and none of
\* the three over an occupied square.
C20_PathClearMeansNothingBetween ==
  /\ \A m \in AlignedPairs :
       /\ is_path_clear(Game, m[1], m[2]) <=> ~Jumps(board, m[1], m[2])
       /\ \A piece \in {None, "P", "p"} :
            is_path_clear([Game EXCEPT !.board = put(board, m[2], piece)],
                          m[1], m[2])
              = is_path_clear(Game, m[1], m[2])
  /\ \A from_pos \in Squares, to_pos \in Squares :
       LET type == lower(at(board, from_pos)) IN
         (type \in {"r", "b", "q"} /\ is_valid_move(Game, from_pos, to_pos)) =>
           /\ from_pos # to_pos
           /\ type = "r" => OnRowOrColumn(from_pos, to_pos)
           /\ type = "b" => OnDiagonal(from_pos, to_pos)
           /\ OnRowOrColumn(from_pos, to_pos) \/ OnDiagonal(from_pos, to_pos)
           /\ ~Jumps(board, from_pos, to_pos)

\* a rook, bishop or queen of the side to move can capture along an open
\* line and is refused a square behind a piece on another line
C20_LineOpenAndLineBlocked ==
  \E from_pos \in Squares :
    /\ lower(at(board, from_pos)) \in {"r", "b", "q"}
    /\ \E to_pos \in Squares :
         /\ is_valid_move(Game, from_pos, to_pos)
         /\ at(board, to_pos) # None
         /\ Between(from_pos, to_pos) # {}
    /\ \E to_pos \in Squares :
         /\ <<from_pos, to_pos>> \in AlignedPairs
         /\ Jumps(board, from_pos, to_pos)
         /\ at(board, to_pos) = None
         /\ ~is_valid_move(Game, from_pos, to_pos)

KingNeighbours(pos) ==
  {sq \in Squares : sq # pos /\ abs(sq[1] - pos[1]) <= 1 /\ abs(sq[2] - pos[2]) <= 1}

\* C21: is_square_attacked returns for every square and either colour, with
\* at most two of its calls open at once: the call made for a castling
\* king by can_castle is not followed by another, because can_castle
\* returns for the other king before it reaches its own probes; and the
\* answer does not go through would_be_in_check: a king attacks every
\* neighbouring square not holding a piece of its own side, the squares
\* the other side attacks included.
C21_AttackProbeDepthIsBounded ==
  \A pos \in Squares, by_color \in {"white", "black"} :
    /\ is_square_attacked_depth(Game, pos, by_color, MaxDepth) <= 2
    /\ LET king == find_king(Game, by_color)
           own(piece) == IF by_color = "white" THEN is_white_piece(piece)
                         ELSE is_black_piece(piece)
           attacked == is_square_attacked(Game, pos, by_color)
       IN /\ attacked \in BOOLEAN
          /\ (pos \in KingNeighbours(king) /\ ~own(at(board, pos))) => attacked

\* a king free to castle makes can_castle probe its squares, the other king
\* stands two columns from one of them and is asked in turn, and the king
\* attacks a neighbouring square that the other side attacks too
C21_CastlingProbeNested ==
  \E pos \in Squares, by_color \in {"white", "black"} :
    /\ is_square_attacked_depth(Game, pos, by_color, MaxDepth) = 2
    /\ \E sq \in castling_callers(Game, pos, by_color) :
         \E probe \in castling_probes([Game EXCEPT !.current_player = by_color],
                                      sq, pos) :
           castling_callers(Game, probe, other_player(by_color)) # {}
    /\ \E near \in KingNeighbours(find_king(Game, by_color)) :
         /\ is_square_attacked(Game, near, by_color)
         /\ is_square_attacked(Game, near, other_player(by_color))

\* C22: a turn at whose start is_checkmate or is_stalemate holds for the
\* side to move is the last: no step of the human player or of the AI
\* moves or undoes from such a position; the two tests never hold
\* together, so that testing checkmate first decides nothing else, and the
\* winner announced at checkmate is the side that made the last move, the
\* opponent of the side to move.
C22_LoopEndsAtCheckmateOrStalemate ==
  [][ /\ ~is_checkmate(Game)
      /\ ~is_stalemate(Game)
      /\ king_on_board(Game') =>
           LET checkmate == is_checkmate(Game')
               stalemate == is_stalemate(Game')
           IN /\ ~(checkmate /\ stalemate)
              /\ checkmate =>
                   /\ announced_winner(Game') =
                        (IF is_white_piece(Last(move_history').piece)
                           THEN "White" ELSE "Black")
                   /\ announced_winner(Game') #
                        (IF current_player' = "white" THEN "White" ELSE "Black")
    ]_vars

\* the AI is checkmated: its turn comes and it has no move to make
C22_AiCheckmated ==
  /\ ai_enabled
  /\ current_player = ai_color
  /\ move_history # <<>>
  /\ is_checkmate(Game)
  /\ ai_valid_moves(Game) = {}

MaxMoves == 3

\* the positions one accepted command of the games leads to
Played(g) ==
  UNION {LET from_pos == parse_position(cmd[1])
             to_pos == parse_position(cmd[2])
         IN IF rejected(g, cmd) THEN {}
            ELSE {make_move(g, from_pos, to_pos, typed) :
                    typed \in PromptChoices(g, from_pos, to_pos)} :
         cmd \in Commands(g)}

RECURSIVE Undone(_, _)
\* k successive calls of undo_move
Undone(g, k) == IF k = 0 THEN g ELSE Undone(undo_move(g), k - 1)

SamePosition(g, h) ==
  /\ g.board = h.board
  /\ g.current_player = h.current_player
  /\ g.move_history = h.move_history

RECURSIVE UndosRestore(_, _, _)
\* earlier holds the positions passed through, oldest first, and g the
\* position reached from the last of them; up to n more moves are played
UndosRestore(g, earlier, n) ==
  /\ \A k \in 1 .. Len(earlier) :
       SamePosition(Undone(g, k), earlier[Len(earlier) - k + 1])
  /\ earlier # <<>> =>
       /\ Len(g.move_history) = Len(Last(earlier).move_history) + 1
       /\ SubSeq(g.move_history, 1, Len(g.move_history) - 1)
            = Last(earlier).move_history
  /\ n > 0 => \A next \in Played(g) : UndosRestore(next, Append(earlier, g), n - 1)

\* C23: records are appended in play order and undo_move takes back the
\* last move not yet taken back: from every position reached, after n
\* accepted moves of the games (n up to MaxMoves), k undos (k <= n) give
\* the board and the side to move of the position reached after the first
\* n - k of them, and the history is then the one of that position.
C23_UndosRestoreEarlierPositions ==
  UndosRestore(Game, <<>>, MaxMoves)

RECURSIVE PlayedOn(_, _)
PlayedOn(g, n) ==
  IF n = 0 THEN {g} ELSE UNION {PlayedOn(next, n - 1) : next \in Played(g)}

\* after a king or a white rook has moved, MaxMoves more moves end with a
\* castling, an en-passant capture or a promotion, and as many undos lead
\* back
C23_SpecialMoveTakenBack ==
  /\ white_king_moved \/ black_king_moved \/ white_rook_a_moved
       \/ white_rook_h_moved
  /\ \E g \in PlayedOn(Game, MaxMoves) :
       /\ \/ Last(g.move_history).castled
          \/ Last(g.move_history).en_passant_capture # None
          \/ Last(g.move_history).promoted_to # None
       /\ SamePosition(Undone(g, MaxMoves), Game)

\* C24: the side to move is white when the move history has even length
\* and black when it has odd length; make_move adds one record and passes
\* the turn, an undo_move that returns True removes one record and passes
\* the turn back, and one that returns False changes neither.
C24_SideToMoveFollowsHistoryLength ==
  /\ current_player = (IF Len(move_history) % 2 = 0 THEN "white" ELSE "black")
  /\ \A next \in Played(Game) :
       /\ Len(next.move_history) = Len(move_history) + 1
       /\ next.current_player = other_player(current_player)
  /\ LET back == undo_move(Game) IN
       IF undo_move_returns(Game)
         THEN /\ Len(back.move_history) = Len(move_history) - 1
              /\ back.current_player = other_player(current_player)
         ELSE /\ back.move_history = move_history
              /\ back.current_player = current_player

\* black is to move after a move was taken back, so that the history
\* has been both longer and shorter, and a further move can be played
C24_BlackToMoveAfterUndo ==
  /\ current_player = "black"
  /\ Len(move_history) = 3
  /\ white_king_moved
  /\ ~Last(move_history).castled
  /\ lower(Last(move_history).piece) # "k"
  /\ Played(Game) # {}

NoPawnOnEndRanks(b) ==
  \A row \in {0, 7}, col \in Rows : lower(b[row][col]) # "p"

\* C25: no pawn of either colour stands on the first or the last rank of
\* the board, in the position reached, in those an accepted move of the
\* games leads to (the promotion made), and in the one undo_move leads
\* back to.
C25_NoPawnOnFirstOrLastRank ==
  /\ NoPawnOnEndRanks(board)
  /\ \A next \in Played(Game) : NoPawnOnEndRanks(next.board)
  /\ NoPawnOnEndRanks(undo_move(Game).board)

\* a pawn has just been promoted on the last rank, and taking the move
\* back puts the pawn on the rank before
C25_PromotedThenTakenBack ==
  /\ move_history # <<>>
  /\ Last(move_history).promoted_to # None
  /\ Last(move_history).to_pos[1] \in {0, 7}
  /\ lower(at(board, Last(move_history).to_pos)) \in {"q", "r", "b", "n"}
  /\ lower(at(undo_move(Game).board, Last(move_history).from_pos)) = "p"
  /\ Last(move_history).from_pos[1] \in {1, 6}

\* C26: captured_pieces['white'] holds only black pieces and
\* captured_pieces['black'] only white pieces, and no entry is empty.
C26_CapturedPiecesAreEnemyPieces ==
  /\ \A i \in 1 .. Len(captured_pieces["white"]) :
       is_black_piece(captured_pieces["white"][i])
  /\ \A i \in 1 .. Len(captured_pieces["black"]) :
       is_white_piece(captured_pieces["black"][i])

\* C27: with the AI enabled, the 'undo' command typed by the human player
\* leaves the human player to move, for every length of the history and
\* either colour of the AI: it takes back the AI's reply and the human
\* player's move before it, or changes nothing when no move was played.
C27_UndoLeavesTheHumanToMove ==
  (ai_enabled /\ human_to_move(Game)) =>
    LET back == undo_command(Game) IN
      /\ back.current_player # ai_color
      /\ IF move_history = <<>> THEN back = Game
         ELSE /\ Len(move_history) >= 2
              /\ back.move_history = SubSeq(move_history, 1, Len(move_history) - 2)

\* the last `count` moves of the history, each with its own number in the
\* history and its player
LastMoves(history, count) ==
  [k \in 1 .. count |->
     LET index == Len(history) - count + k IN
       [move_num |-> index,
        player |-> IF index % 2 = 1 THEN "White" ELSE "Black",
        move |-> history[index]]]

\* C28: for a history of L >= 1 moves and every last_n from 1 to MaxLastN,
\* display_move_history(last_n) announces min(last_n, L) moves and lists
\* exactly the last min(last_n, L) moves in play order, each with its own
\* 1-based index in the history and 'White' for odd, 'Black' for even
\* indices.
C28_HistoryListsTheLastMoves ==
  move_history # <<>> =>
    \A last_n \in 1 .. MaxLastN :
      LET count == IF last_n < Len(move_history) THEN last_n
                   ELSE Len(move_history)
          shown == display_move_history(Game, last_n)
      IN /\ shown.header = count
         /\ Len(shown.lines) = count
         /\ \A k \in 1 .. count : shown.lines[k] = LastMoves(move_history, count)[k]

\* the characters typed: every file letter in both cases, every digit, a
\* letter after h in both cases and a blank
TypedChars ==
  {Files[i] : i \in 1 .. 8} \cup {UpperFiles[i] : i \in 1 .. 8}
    \cup {Digits[i] : i \in 1 .. 10} \cup {"i", "I", " "}

\* the typed positions: every string of at most two of these characters
\* and the strings of three made of a square and one more character
TypedPositions ==
  {<<>>} \cup {<<c>> : c \in TypedChars}
    \cup {<<c, d>> : c \in TypedChars, d \in TypedChars}
    \cup {<<Files[i], Digits[j], c>> : i \in 1 .. 8, j \in 2 .. 9, c \in {"1", " "}}

FileLetters == {Files[i] : i \in 1 .. 8}

RankDigits == {Digits[i] : i \in 2 .. 9}

Inverse(names_a_square(_)) ==
  /\ \A pos \in Squares :
       parse_position(position_to_notation(pos)) = pos
  /\ parse_position(<<"a", "1">>) = <<7, 0>>
  /\ parse_position(<<"h", "8">>) = <<0, 7>>
  /\ \A typed \in TypedPositions :
       IF names_a_square(typed)
         THEN /\ parse_position(typed) \in Squares
              /\ position_to_notation(parse_position(typed))
                   = <<Files[parse_position(typed)[2] + 1], typed[2]>>
              /\ typed[1] \in FileLetters
                   => position_to_notation(parse_position(typed)) = typed
         ELSE parse_position(typed) = NoSquare

LoopPassesSquaresOnly ==
  /\ \A i \in 1 .. Len(move_history) :
       move_history[i].from_pos \in Squares /\ move_history[i].to_pos \in Squares
  /\ \A cmd \in Commands(Game) :
       ~rejected(Game, cmd) =>
         parse_position(cmd[1]) \in Squares /\ parse_position(cmd[2]) \in Squares

====
